---- MODULE Spec2Model ----
(***************************************************************************)
(* A model of shitgit's object store (src/objects.py, src/repository.py):  *)
(* the object encoding, the content-addressed store, the commit-message    *)
(* and tree codecs and name resolution.                                    *)
(*                                                                         *)
(* Bytes and characters are their ASCII codes; a bytes or str value is a   *)
(* sequence of codes.  Python indices are 0-based: position i of a Python  *)
(* value is element i+1 of the sequence.  A call that can raise returns a  *)
(* record [ok |-> TRUE, val |-> v] or [ok |-> FALSE, err |-> "Exception"]. *)
(***************************************************************************)
EXTENDS Integers, Sequences, FiniteSets, TLC

Ok(v) == [ok |-> TRUE, val |-> v]
Raise(e) == [ok |-> FALSE, err |-> e]

\* --------------------------------------------------------------- bytes
SP == 32
NUL == 0
NL == 10

b_blob == <<98, 108, 111, 98>>
b_commit == <<99, 111, 109, 109, 105, 116>>
b_tree == <<116, 114, 101, 101>>
b_tag == <<116, 97, 103>>
b_HEAD == <<72, 69, 65, 68>>

MinOf(S) == CHOOSE x \in S : \A y \in S : x <= y

\* The sequence f[1], ..., f[n], each element computed once.
Elems(f, n) == SubSeq(f, 1, n)

\* The function f, computed once for each element of its domain.
Table(f) == f @@ <<>>

\* A Python slice bound i clamped into 0..n (negative bounds count from the end).
PyBound(i, n) == IF i < 0 THEN (IF n + i < 0 THEN 0 ELSE n + i)
                 ELSE (IF i > n THEN n ELSE i)

\* s[i:j]
Slice(s, i, j) == SubSeq(s, PyBound(i, Len(s)) + 1, PyBound(j, Len(s)))

\* s[i:]
SliceFrom(s, i) == Slice(s, i, Len(s))

\* s.find(b, start): the least index >= start holding byte b, or -1.
Find(s, b, start) ==
    LET hits == {k \in PyBound(start, Len(s)) .. Len(s) - 1 : s[k + 1] = b}
    IN  IF hits = {} THEN -1 ELSE MinOf(hits)

\* s.startswith(p)
StartsWith(s, p) == Len(p) <= Len(s) /\ SubSeq(s, 1, Len(p)) = p

\* The sum of f[k] for k in lo..hi, by halves.
RECURSIVE SumOver(_, _, _)
SumOver(f, lo, hi) ==
    IF lo > hi THEN 0
    ELSE IF lo = hi THEN f[lo]
    ELSE [m \in {(lo + hi) \div 2} |-> SumOver(f, lo, m) + SumOver(f, m + 1, hi)][(lo + hi) \div 2]

\* The elements of s at the positions in keep, in order.
Keep(s, keep) ==
    Elems([i \in 1..Cardinality(keep) |->
              s[CHOOSE k \in keep : Cardinality({m \in keep : m <= k}) = i]],
          Cardinality(keep))

\* v.replace(b'\n ', b'\n'): the space after each newline is dropped (matches
\* of the two bytes cannot overlap).
Unfold(v) == Keep(v, {k \in 1..Len(v) : ~(k > 1 /\ v[k] = SP /\ v[k - 1] = NL)})

\* v.replace(b'\n', b'\n '): a space is put after each newline.
Fold(v) ==
    LET out(k) == k + Cardinality({m \in 1..(k - 1) : v[m] = NL})
        n == Len(v) + Cardinality({m \in 1..Len(v) : v[m] = NL})
    IN  Elems([i \in 1..n |-> IF \E k \in 1..Len(v) : out(k) = i
                              THEN v[CHOOSE k \in 1..Len(v) : out(k) = i]
                              ELSE SP], n)

IsDigit(c) == c \in 48..57
\* The ASCII characters str.strip() treats as whitespace, and those int() does.
StrSpace == (9..13) \cup (28..32)
IntSpace == (9..13) \cup {32}

\* str(n).encode() for n >= 0
RECURSIVE Decimal(_)
Decimal(n) == IF n < 10 THEN <<48 + n>> ELSE Decimal(n \div 10) \o <<48 + (n % 10)>>

RECURSIVE DigitsValue(_)
DigitsValue(s) == IF s = <<>> THEN 0
                  ELSE 10 * DigitsValue(SubSeq(s, 1, Len(s) - 1)) + (s[Len(s)] - 48)

\* s without its leading, or trailing, characters in ws.
RECURSIVE LStripOf(_, _)
LStripOf(s, ws) == IF s # <<>> /\ s[1] \in ws THEN LStripOf(Tail(s), ws) ELSE s

RECURSIVE RStripOf(_, _)
RStripOf(s, ws) == IF s # <<>> /\ s[Len(s)] \in ws THEN RStripOf(SubSeq(s, 1, Len(s) - 1), ws) ELSE s

\* A strip that leaves the trailing whitespace in place.
NoStrip(s) == s

\* s.lstrip(), s.rstrip() of a str
LStrip(s) == LStripOf(s, StrSpace)
RStrip(s) == RStripOf(s, StrSpace)

\* The digits of an int() literal: decimal digits, single underscores between them.
IsDigits(u) ==
    /\ u # <<>>
    /\ \A i \in 1..Len(u) : IsDigit(u[i]) \/ u[i] = 95
    /\ IsDigit(u[1]) /\ IsDigit(u[Len(u)])
    /\ \A i \in 1..(Len(u) - 1) : ~(u[i] = 95 /\ u[i + 1] = 95)

\* int(s.decode("ascii")): surrounding whitespace is ignored, a sign is allowed,
\* the rest must be decimal digits.
PyInt(s) ==
    LET t == RStripOf(LStripOf(s, IntSpace), IntSpace)
        neg == t # <<>> /\ t[1] = 45
        u == IF t # <<>> /\ t[1] \in {43, 45} THEN Tail(t) ELSE t
    IN  IF \E i \in 1..Len(s) : s[i] > 127 THEN Raise("UnicodeDecodeError")
        ELSE IF ~IsDigits(u) THEN Raise("ValueError")
        ELSE Ok(IF neg THEN 0 - DigitsValue(Keep(u, {k \in 1..Len(u) : IsDigit(u[k])}))
                ELSE DigitsValue(Keep(u, {k \in 1..Len(u) : IsDigit(u[k])})))

\* ----------------------------------------------------------------- hex
HexChar(d) == IF d < 10 THEN 48 + d ELSE 87 + d

IsHex(c) == c \in 48..57 \/ c \in 65..70 \/ c \in 97..102

HexVal(c) == IF c \in 48..57 THEN c - 48 ELSE IF c \in 65..70 THEN c - 55 ELSE c - 87

\* c.lower()
LowerChar(c) == IF c \in 65..90 THEN c + 32 ELSE c

\* s.lower()
Lower(s) == Elems([i \in 1..Len(s) |-> LowerChar(s[i])], Len(s))

\* The lowercase hex digits of a byte sequence, two per byte.
BytesToHex(bs) ==
    Elems([i \in 1..(2 * Len(bs)) |->
              IF i % 2 = 1 THEN HexChar(bs[(i + 1) \div 2] \div 16)
                           ELSE HexChar(bs[i \div 2] % 16)],
          2 * Len(bs))

RECURSIVE StripZeros(_)
StripZeros(h) == IF Len(h) > 1 /\ h[1] = 48 THEN StripZeros(Tail(h)) ELSE h

\* int(h, 16).to_bytes(20, byteorder="big") on the digits of h: the value is
\* left-padded with zero digits to 40 digits, i.e. 20 bytes.
HexToBytes20(h) ==
    IF h = <<>> \/ \E i \in 1..Len(h) : ~IsHex(h[i]) THEN Raise("ValueError")
    ELSE LET sig == StripZeros(Lower(h))
         IN  IF Len(sig) > 40 THEN Raise("OverflowError")
             ELSE LET d == [i \in 1..40 |->
                                IF i <= 40 - Len(sig) THEN 0
                                ELSE HexVal(sig[i - (40 - Len(sig))])]
                  IN  Ok(Elems([i \in 1..20 |-> 16 * d[2 * i - 1] + d[2 * i]], 20))

\* hex(int.from_bytes(bs, "big"))[2:]: no leading zero digits, "0" for zero.
IntHex(bs) == IF bs = <<>> THEN <<48>> ELSE StripZeros(BytesToHex(bs))

\* ------------------------------------------------- commit message (kvlm)
\* An OrderedDict is the sequence of its items in insertion order, keys distinct.
\* A value is [islist, vals]: a bytes value has islist FALSE and one element.
Scalar(v) == [islist |-> FALSE, vals |-> <<v>>]

DictHas(d, k) == \E i \in 1..Len(d) : d[i].k = k

DictGet(d, k) == d[CHOOSE i \in 1..Len(d) : d[i].k = k].v

\* d[k] = v: an existing key keeps its place.
DictSet(d, k, v) ==
    IF DictHas(d, k)
    THEN [i \in 1..Len(d) |-> IF d[i].k = k THEN [k |-> k, v |-> v] ELSE d[i]]
    ELSE Append(d, [k |-> k, v |-> v])

\* The value stored for a parsed field: a scalar, or a list once the key repeats.
DictAddField(d, key, value) ==
    IF DictHas(d, key)
    THEN DictSet(d, key, [islist |-> TRUE, vals |-> Append(DictGet(d, key).vals, value)])
    ELSE DictSet(d, key, Scalar(value))

\* The loop that finds the end of a value: a newline not followed by a space.
\* It runs until fuel is spent, which only a loop that never ends can do.
RECURSIVE FindValueEnd(_, _, _)
FindValueEnd(raw, end, fuel) ==
    IF fuel = 0 THEN Raise("NonTermination")
    ELSE LET e == Find(raw, NL, end + 1)
         IN  IF e + 1 >= Len(raw) THEN Raise("IndexError")
             ELSE IF raw[e + 2] # SP THEN Ok(e)
             ELSE FindValueEnd(raw, e, fuel - 1)

RECURSIVE message_parse_from(_, _, _, _)
message_parse_from(raw, start, dct, fuel) ==
    IF fuel = 0 THEN Raise("RecursionError")
    ELSE
    LET spc == Find(raw, SP, start)
        nl == Find(raw, NL, start)
    IN  IF spc < 0 \/ nl < spc
        THEN IF nl # start THEN Raise("AssertionError")
             ELSE Ok(DictSet(dct, <<>>, Scalar(SliceFrom(raw, start + 1))))
        ELSE LET key == Slice(raw, start, spc)
                 fe == FindValueEnd(raw, start, Len(raw) + 2)
             IN  IF ~fe.ok THEN fe
                 ELSE LET value == Unfold(Slice(raw, spc + 1, fe.val))
                      IN  message_parse_from(raw, fe.val + 1,
                                             DictAddField(dct, key, value), fuel - 1)

message_parse(raw) == message_parse_from(raw, 0, <<>>, Len(raw) + 2)

RECURSIVE SerializeValues(_, _)
SerializeValues(k, vals) ==
    IF vals = <<>> THEN <<>>
    ELSE k \o <<SP>> \o Fold(vals[1]) \o <<NL>>
         \o SerializeValues(k, Tail(vals))

RECURSIVE SerializeFields(_)
SerializeFields(d) ==
    IF d = <<>> THEN <<>>
    ELSE (IF d[1].k = <<>> THEN <<>> ELSE SerializeValues(d[1].k, d[1].v.vals))
         \o SerializeFields(Tail(d))

message_serialize(msg) ==
    IF ~DictHas(msg, <<>>) THEN Raise("KeyError")
    ELSE IF DictGet(msg, <<>>).islist THEN Raise("TypeError")
    ELSE Ok(SerializeFields(msg) \o <<NL>> \o DictGet(msg, <<>>).vals[1])

\* ---------------------------------------------------------------- tree
GitTreeLeaf(mode, path, sha) == [mode |-> mode, path |-> path, sha |-> sha]

tree_parse_leaf(raw, start) ==
    LET spc == Find(raw, SP, start)
        nt == Find(raw, NUL, spc)
    IN  IF spc - start \notin {5, 6} THEN Raise("AssertionError")
        ELSE Ok([pos |-> nt + 21,
                 leaf |-> GitTreeLeaf(Slice(raw, start, spc),
                                      Slice(raw, spc + 1, nt),
                                      IntHex(Slice(raw, nt + 1, nt + 21)))])

RECURSIVE tree_parse_from(_, _, _, _)
tree_parse_from(raw, pos, leaves, fuel) ==
    IF ~(pos < Len(raw)) THEN Ok(leaves)
    ELSE IF fuel = 0 THEN Raise("NonTermination")
    ELSE LET r == tree_parse_leaf(raw, pos)
         IN  IF ~r.ok THEN r
             ELSE tree_parse_from(raw, r.val.pos, Append(leaves, r.val.leaf), fuel - 1)

tree_parse(raw) == tree_parse_from(raw, 0, <<>>, Len(raw) + 22)

RECURSIVE SerializeLeaves(_)
SerializeLeaves(items) ==
    IF items = <<>> THEN Ok(<<>>)
    ELSE LET h == HexToBytes20(items[1].sha)
             rest == SerializeLeaves(Tail(items))
         IN  IF ~h.ok THEN h
             ELSE IF ~rest.ok THEN rest
             ELSE Ok(items[1].mode \o <<SP>> \o items[1].path \o <<NUL>> \o h.val \o rest.val)

\* tree_serialize reads obj.items; an object without that attribute raises.
tree_serialize(obj) ==
    IF "items" \notin DOMAIN obj THEN Raise("AttributeError")
    ELSE SerializeLeaves(obj.items)

\* ---------------------------------------------------------------- zlib
\* zlib.compress / zlib.decompress as a zlib stream holding one stored block:
\* the two header bytes, the block header with the length and its complement,
\* the data, and the Adler-32 checksum of the data.
AdlerMod == 65521

\* Adler-32: a is 1 plus the sum of the bytes, b the sum of the values a takes.
Adler32(s) ==
    LET n == Len(s)
        a == (1 + SumOver(s, 1, n)) % AdlerMod
        b == (n + SumOver([k \in 1..n |-> (n - k + 1) * s[k]], 1, n)) % AdlerMod
    IN  <<b \div 256, b % 256, a \div 256, a % 256>>

ZHeader(n) == <<120, 1, 1, n % 256, n \div 256, 255 - (n % 256), 255 - (n \div 256)>>

zlib_compress(data) == ZHeader(Len(data)) \o data \o Adler32(data)

zlib_decompress(z) ==
    LET n == Len(z) - 11
        data == SubSeq(z, 8, Len(z) - 4)
    IN  IF n < 0 THEN Raise("zlib.error")
        ELSE IF SubSeq(z, 1, 7) # ZHeader(n) THEN Raise("zlib.error")
        ELSE IF SubSeq(z, Len(z) - 3, Len(z)) # Adler32(data) THEN Raise("zlib.error")
        ELSE Ok(data)

\* ---------------------------------------------------------------- sha1
\* hashlib.sha1(res).hexdigest(): 40 lowercase hex digits, a function of the
\* bytes alone.  The digest is a checksum here: its first four digits depend on
\* the byte sum and the length only, the rest on every byte and its position,
\* so that distinct objects of the model have distinct digests and some share
\* a four digit prefix.
ByteSum(s) == SumOver(s, 1, Len(s))

Mix(s, i) ==
    SumOver([j \in 1..Len(s) |-> s[j] * (((i * j) % 11) + (j % 5) + 1)], 1, Len(s)) % 16

sha1_hexdigest(res) ==
    Elems([i \in 1..40 |->
              HexChar(IF i = 1 THEN (ByteSum(res) \div 16) % 16
                      ELSE IF i = 2 THEN ByteSum(res) % 16
                      ELSE IF i = 3 THEN (Len(res) \div 16) % 16
                      ELSE IF i = 4 THEN Len(res) % 16
                      ELSE Mix(res, i))],
          40)

\* ------------------------------------------------------------- objects
\* A GitObject is the record of its attributes: fmt, and blobdata (GitBlob),
\* msg (GitCommit, GitTag) or entries (GitTree), as deserialize sets them.
GitBlob(data) == Ok([fmt |-> b_blob, blobdata |-> data])

GitCommit(data) ==
    LET m == message_parse(data)
    IN  IF m.ok THEN Ok([fmt |-> b_commit, msg |-> m.val]) ELSE m

\* The GitTag in force is the second class of that name, a GitCommit whose fmt is tag.
GitTag(data) ==
    LET m == message_parse(data)
    IN  IF m.ok THEN Ok([fmt |-> b_tag, msg |-> m.val]) ELSE m

GitTree(data) ==
    LET t == tree_parse(data)
    IN  IF t.ok THEN Ok([fmt |-> b_tree, entries |-> t.val]) ELSE t

\* obj.serialize()
serialize(obj) ==
    IF obj.fmt = b_blob
    THEN (IF "blobdata" \in DOMAIN obj THEN Ok(obj.blobdata) ELSE Raise("AttributeError"))
    ELSE IF obj.fmt = b_tree THEN tree_serialize(obj)
    ELSE IF "msg" \in DOMAIN obj THEN message_serialize(obj.msg)
    ELSE Raise("AttributeError")

\* The constructor object_read and object_hash pick for a type name.
Construct(fmt, data) ==
    IF fmt = b_commit THEN GitCommit(data)
    ELSE IF fmt = b_tree THEN GitTree(data)
    ELSE IF fmt = b_tag THEN GitTag(data)
    ELSE IF fmt = b_blob THEN GitBlob(data)
    ELSE Raise("Exception: Unknown type")

\* The header and the payload, and its digest, as object_write builds them.
Encode(obj) ==
    LET data == serialize(obj)
    IN  IF ~data.ok THEN data
        ELSE Ok(obj.fmt \o <<SP>> \o Decimal(Len(data.val)) \o <<NUL>> \o data.val)

\* The storage path of a hash: <<directory, file name>> under objects/.
ObjPath(sha) == <<Slice(sha, 0, 2), SliceFrom(sha, 2)>>

\* A length check that accepts a payload shorter than declared.
LengthAtLeast(size, raw, y) == size >= Len(raw) - y - 1

\* The length check of object_read: the declared size against the bytes after the NUL.
LengthOk(size, raw, y) == size = Len(raw) - y - 1

\* Decoding of a decompressed object file.
Decode(raw) ==
    LET x == Find(raw, SP, 0)
        fmt == Slice(raw, 0, x)
        y == Find(raw, NUL, x)
        size == PyInt(Slice(raw, x, y))
    IN  IF ~size.ok THEN size
        ELSE IF ~LengthOk(size.val, raw, y) THEN Raise("Exception: Malformed object: bad length")
        ELSE Construct(fmt, SliceFrom(raw, y + 1))

\* The digest of the header and payload, and the bytes a real write stores.
HashAndCompress(enc) ==
    IF ~enc.ok THEN enc
    ELSE Ok([res |-> enc.val, sha |-> sha1_hexdigest(enc.val), z |-> zlib_compress(enc.val)])

\* object_write up to the decision to write: the header and payload, their
\* digest, and the compressed bytes a real write stores.
Prepare(obj) == HashAndCompress(Encode(obj))

\* The hash object_write returns for an object.
ShaOf(obj) == sha1_hexdigest(Encode(obj).val)

\* zlib.decompress(f.read()) and the decoding of what it yields.
DecodeFile(content) ==
    LET raw == zlib_decompress(content)
    IN  IF ~raw.ok THEN raw ELSE Decode(raw.val)

\* ------------------------------------------------------ the objects used
m_100644 == <<49, 48, 48, 54, 52, 52>>
k_tree == <<116, 114, 101, 101, 32>>
k_obj == <<111, 98, 106, 101, 99, 116, 32>>

BlobAB == GitBlob(<<97, 98>>).val

\* A GitTree built by hand, with the items attribute tree_serialize reads.
HandTree == [fmt |-> b_tree, items |-> <<GitTreeLeaf(m_100644, <<97>>, ShaOf(BlobAB))>>]

TreeRaw == tree_serialize(HandTree).val
CommitRaw == k_tree \o ShaOf(HandTree) \o <<NL, NL, 109>>
TagRaw == k_obj \o ShaOf(GitCommit(CommitRaw).val) \o <<NL, NL, 116>>

\* The files object_hash is given: a type name and the file's bytes.
RawInputs == <<
    [fmt |-> b_blob, data |-> <<97, 98>>],
    [fmt |-> b_blob, data |-> <<98, 97>>],
    [fmt |-> b_commit, data |-> CommitRaw],
    [fmt |-> b_tag, data |-> TagRaw],
    [fmt |-> b_tree, data |-> TreeRaw] >>

\* The objects the constructors object_hash picks make of the inputs.
ConstructAll(inputs) == Elems([j \in 1..Len(inputs) |-> Construct(inputs[j].fmt, inputs[j].data).val],
                              Len(inputs))

\* The objects object_write is given: object j is the one constructed from
\* raw input j, the last one is the tree built by hand.
Objects == ConstructAll(RawInputs) \o <<HandTree>>

PrepareAll(objs) == Elems([i \in 1..Len(objs) |-> Prepare(objs[i])], Len(objs))

\* Prepare, computed once for each object.
Store == PrepareAll(Objects)

\* The objects object_write can store, with their header and payload, digest
\* and compressed bytes.
StorableOf(store) == {i \in 1..Len(store) : store[i].ok}

ShasOf(store) == {store[i].val.sha : i \in StorableOf(store)}
Shas == ShasOf(Store)

\* A stored file tampered with: the declared length changed by n, or the
\* payload cut by n bytes, or extended by n bytes.
Tamper(res, op) ==
    LET x == Find(res, SP, 0)
        y == Find(res, NUL, x)
        size == DigitsValue(Slice(res, x + 1, y))
        payload == SliceFrom(res, y + 1)
        head(n) == Slice(res, 0, x) \o <<SP>> \o Decimal(n) \o <<NUL>>
    IN  IF op.kind = "len" THEN head(size + op.n) \o payload
        ELSE IF op.kind = "cut" THEN head(size) \o Slice(payload, 0, Len(payload) - op.n)
        ELSE head(size) \o payload \o Elems([k \in 1..op.n |-> 120], op.n)

MaxDelta == 2
MaxCut == 2
MaxExt == 2

TamperOps ==
    {[kind |-> "len", n |-> d] : d \in ((0 - MaxDelta)..MaxDelta) \ {0}}
    \cup {[kind |-> "cut", n |-> k] : k \in 1..MaxCut}
    \cup {[kind |-> "ext", n |-> k] : k \in 1..MaxExt}

\* Whether the tampering applies to a file of these bytes: the length stays
\* >= 0 and there are bytes to cut.
CanTamper(res, op) ==
    LET payload == Len(res) - Find(res, NUL, 0) - 1
    IN  IF op.kind = "len" THEN payload + op.n >= 0
        ELSE IF op.kind = "cut" THEN op.n <= payload
        ELSE TRUE

\* The first half of the compressed bytes: a write that is under way.
Half(z) == SubSeq(z, 1, Len(z) \div 2)

\* The contents a file of the model can hold: nothing, the compressed bytes of
\* an object, their first half, or tampered bytes compressed.
ContentsOf(store) ==
    {<<>>} \cup UNION {
        {store[i].val.z, Half(store[i].val.z)}
        \cup {zlib_compress(Tamper(store[i].val.res, op)) :
                op \in {o \in TamperOps : CanTamper(store[i].val.res, o)}}
        : i \in StorableOf(store)}

FileContents == ContentsOf(Store)

\* DecodeFile, computed once for each content a file can hold.
ReadFile == Table([c \in FileContents |-> DecodeFile(c)])

\* object_read on a store: fs maps the paths of the files to their contents,
\* ds is the set of directories under objects/.
object_read(fs, ds, sha) ==
    IF ObjPath(sha)[1] \notin ds THEN Raise("TypeError")
    ELSE IF ObjPath(sha) \notin DOMAIN fs THEN Raise("FileNotFoundError")
    ELSE ReadFile[fs[ObjPath(sha)]]

\* ---------------------------------------------------------- references
s_ref == <<114, 101, 102, 58, 32>>
p_master == <<114, 101, 102, 115, 47, 104, 101, 97, 100, 115, 47, 109, 97, 115, 116, 101, 114>>
k_object == <<111, 98, 106, 101, 99, 116>>

\* ref_resolve on the reference files rs (path -> content).  Each level of the
\* recursion spends one unit of fuel; a chain longer than the number of files
\* revisits a file and never ends.
RECURSIVE ref_resolve_from(_, _, _)
ref_resolve_from(rs, ref, fuel) ==
    IF fuel = 0 THEN Raise("RecursionError")
    ELSE IF ref \notin DOMAIN rs THEN Raise("FileNotFoundError")
    ELSE LET data == RStrip(rs[ref])
         IN  IF StartsWith(data, s_ref) THEN ref_resolve_from(rs, SliceFrom(data, 5), fuel - 1)
             ELSE Ok(data)

ref_resolve(rs, ref) == ref_resolve_from(rs, ref, Cardinality(DOMAIN rs) + 1)

\* ------------------------------------------------------- name resolution
NoneRet == [ok |-> TRUE, none |-> TRUE]

IsNone(r) == "none" \in DOMAIN r

\* hashRE.match(name), for ^[0-9A-Fa-f]{1,16}$ ($ also matches before a final newline).
HashREMatch(name) ==
    LET core == IF name # <<>> /\ name[Len(name)] = NL
                THEN SubSeq(name, 1, Len(name) - 1) ELSE name
    IN  Len(core) \in 1..16 /\ \A i \in 1..Len(core) : IsHex(core[i])

\* The file names of directory d of the store.
DirNames(fs, d) == {p[2] : p \in {q \in DOMAIN fs : q[1] = d}}

\* What os.listdir may return for directory d: its names in any order.
Listings(fs, d) ==
    LET names == DirNames(fs, d)
    IN  {o \in [1..Cardinality(names) -> names] : \A i, j \in DOMAIN o : o[i] = o[j] => i = j}

RECURSIVE MatchNames(_, _, _)
MatchNames(listing, prefix, rem) ==
    IF listing = <<>> THEN <<>>
    ELSE (IF StartsWith(listing[1], rem) THEN <<prefix \o listing[1]>> ELSE <<>>)
         \o MatchNames(Tail(listing), prefix, rem)

\* object_resolve: listing is what os.listdir returns for the bucket if it is
\* listed.  The result is [ret, io]: what is returned or raised, and the
\* filesystem calls made.
object_resolve(fs, ds, rs, name, listing) ==
    IF LStrip(RStrip(name)) = <<>> THEN [ret |-> NoneRet, io |-> <<>>]
    ELSE IF name = b_HEAD
    THEN LET r == ref_resolve(rs, b_HEAD)
         IN  [ret |-> IF r.ok THEN Ok(<<r.val>>) ELSE r, io |-> <<"open_ref">>]
    ELSE IF HashREMatch(name) /\ Len(name) = 40
    THEN [ret |-> Ok(<<Lower(name)>>), io |-> <<>>]
    ELSE IF HashREMatch(name) /\ Len(name) >= 4 /\ Slice(Lower(name), 0, 2) \in ds
    THEN [ret |-> Ok(MatchNames(listing, Slice(Lower(name), 0, 2), SliceFrom(Lower(name), 2))),
          io |-> <<"listdir">>]
    ELSE [ret |-> Ok(<<>>), io |-> <<>>]

\* A check that lets two candidates through.
AmbiguousOverTwo(sha) == Len(sha) > 2

\* len(sha) > 1 in object_find
Ambiguous(sha) == Len(sha) > 1

\* The loop of object_find that follows tags and commits to the wanted type:
\* FindLoop reads the object of sha, FindStep is the rest of the loop body on
\* the object read.
RECURSIVE FindLoop(_, _, _, _, _, _, _)
RECURSIVE FindStep(_, _, _, _, _, _, _, _)
FindStep(fs, ds, obj, sha, fmt, follow, io, fuel) ==
    IF ~obj.ok THEN [ret |-> obj, io |-> io]
    ELSE IF obj.val.fmt = fmt THEN [ret |-> Ok(sha), io |-> io]
    ELSE IF ~follow THEN [ret |-> NoneRet, io |-> io]
    ELSE IF obj.val.fmt = b_tag \/ (obj.val.fmt = b_commit /\ fmt = b_tree)
    THEN IF "kvlm" \notin DOMAIN obj.val THEN [ret |-> Raise("AttributeError"), io |-> io]
         ELSE IF ~DictHas(obj.val.kvlm, IF obj.val.fmt = b_tag THEN k_object ELSE b_tree)
         THEN [ret |-> Raise("KeyError"), io |-> io]
         ELSE IF DictGet(obj.val.kvlm, IF obj.val.fmt = b_tag THEN k_object ELSE b_tree).islist
         THEN [ret |-> Raise("AttributeError"), io |-> io]
         ELSE FindLoop(fs, ds,
                       DictGet(obj.val.kvlm, IF obj.val.fmt = b_tag THEN k_object ELSE b_tree).vals[1],
                       fmt, follow, io, fuel - 1)
    ELSE [ret |-> NoneRet, io |-> io]

FindLoop(fs, ds, sha, fmt, follow, io, fuel) ==
    IF fuel = 0 THEN [ret |-> Raise("NonTermination"), io |-> io]
    ELSE FindStep(fs, ds, object_read(fs, ds, sha), sha, fmt, follow, Append(io, "open_rb"), fuel)

\* object_find; fmt <<>> stands for no wanted type.
object_find(fs, ds, rs, name, fmt, follow, listing) ==
    LET r == object_resolve(fs, ds, rs, name, listing)
    IN  IF ~r.ret.ok THEN r
        ELSE IF IsNone(r.ret) \/ r.ret.val = <<>>
        THEN [ret |-> Raise("Exception: No such reference"), io |-> r.io]
        ELSE IF Ambiguous(r.ret.val)
        THEN [ret |-> [ok |-> FALSE, err |-> "Exception: Ambiguous reference",
                       candidates |-> r.ret.val],
              io |-> r.io]
        ELSE IF fmt = <<>> THEN [ret |-> Ok(r.ret.val[1]), io |-> r.io]
        ELSE FindLoop(fs, ds, r.ret.val[1], fmt, follow, r.io, Cardinality(DOMAIN fs) + 1)

\* ------------------------------------------------------------ the store
\* files: the files under objects/, path -> content.  dirs: the directories
\* under objects/.  refs: the reference files, path -> content.  w: the
\* object_write under way, with its local variables.  real: per object, the
\* hash a completed real write returned.  last: the last call or filesystem
\* event, with what it returned.  codec: the codec call, or the ref_resolve
\* call, under way.
VARIABLES files, dirs, refs, w, real, last, codec

vars == <<files, dirs, refs, w, real, last, codec>>

Idle == [pc |-> "idle"]
NoCall == [op |-> "none"]
NoCodec == [stage |-> "none"]

\* HEAD as repo_create writes it.
FreshRefs == [p \in {b_HEAD} |-> s_ref \o p_master \o <<NL>>]

\* The objects the store actions write, and the raw inputs they hash.
StoreObjs == {1, 3, 4, 5, 6}
HashInputs == {1, 3, 4, 5}

Init ==
    /\ files = <<>>
    /\ dirs = {}
    /\ refs = FreshRefs
    /\ w = Idle
    /\ real = [i \in DOMAIN Store |-> <<>>]
    /\ last = NoCall
    /\ codec = NoCodec

\* A write that ignores actually_write.
ShouldWriteAlways(aw) == TRUE

\* if actually_write
ShouldWrite(aw) == aw

\* open(path, 'wb'): the file exists and is empty.
OpenWb(fs, path) == [q \in DOMAIN fs \cup {path} |-> IF q = path THEN <<>> ELSE fs[q]]

SetContent(fs, path, c) == [q \in DOMAIN fs |-> IF q = path THEN c ELSE fs[q]]

\* object_write up to the open of the file: the object is serialized and
\* hashed; a dry run returns here, a real write makes the directory and opens
\* the file for writing.
WriteBegin(op, arg, i, aw) ==
    /\ w.pc = "idle"
    /\ UNCHANGED <<refs, real, codec>>
    /\ \E p \in {Store[i]} :
         IF ~p.ok
         THEN /\ last' = [op |-> op, arg |-> arg, ret |-> p, io |-> <<>>]
              /\ UNCHANGED <<files, dirs, w>>
         ELSE IF ~ShouldWrite(aw)
         THEN /\ last' = [op |-> op, arg |-> arg, ret |-> Ok(p.val.sha), io |-> <<>>]
              /\ UNCHANGED <<files, dirs, w>>
         ELSE /\ files' = OpenWb(files, ObjPath(p.val.sha))
              /\ dirs' = dirs \cup {ObjPath(p.val.sha)[1]}
              /\ w' = [pc |-> "open", op |-> op, arg |-> arg, i |-> i,
                       path |-> ObjPath(p.val.sha), sha |-> p.val.sha, z |-> p.val.z]
              /\ last' = [op |-> "open_wb", arg |-> ObjPath(p.val.sha), ret |-> NoneRet,
                          io |-> <<"makedirs", "open_wb">>]

\* object_write(obj, actually_write)
object_write_call(i, aw) ==
    WriteBegin("object_write", [obj |-> i, actually_write |-> aw], i, aw)

\* object_hash(fd, fmt, repo): repo is "None" or "repo"; the object
\* constructed from raw input j is object j, and repo is what object_write
\* gets for actually_write.
object_hash_call(j, repo) ==
    WriteBegin("object_hash", [raw |-> j, repo |-> repo], j, repo # "None")

\* f.write flushes part of the compressed bytes before the rest.
write_partial ==
    /\ w.pc = "open"
    /\ files' = SetContent(files, w.path, Half(w.z))
    /\ w' = [w EXCEPT !.pc = "partial"]
    /\ last' = [op |-> "write", arg |-> w.path, ret |-> NoneRet, io |-> <<"write">>]
    /\ UNCHANGED <<dirs, refs, real, codec>>

\* The write completes, the file is closed and the hash is returned.
write_close ==
    /\ w.pc \in {"open", "partial"}
    /\ files' = SetContent(files, w.path, w.z)
    /\ w' = Idle
    /\ real' = [real EXCEPT ![w.i] = w.sha]
    /\ last' = [op |-> w.op, arg |-> w.arg, ret |-> Ok(w.sha), io |-> <<"write", "close">>]
    /\ UNCHANGED <<dirs, refs, codec>>

\* The write raises (the disk is full, the process is interrupted): the with
\* block closes the file and nothing removes it.
write_fail ==
    /\ w.pc \in {"open", "partial"}
    /\ w' = Idle
    /\ last' = [op |-> w.op, arg |-> w.arg, ret |-> Raise("OSError"), io |-> <<"close">>]
    /\ UNCHANGED <<files, dirs, refs, real, codec>>

\* object_read(repo, sha), by this process or another one.
object_read_call(sha) ==
    /\ last' = [op |-> "object_read", arg |-> sha, ret |-> object_read(files, dirs, sha),
                io |-> <<"open_rb">>]
    /\ UNCHANGED <<files, dirs, refs, w, real, codec>>

Next ==
    \/ \E i \in StoreObjs, aw \in BOOLEAN : object_write_call(i, aw)
    \/ \E j \in HashInputs, repo \in {"None", "repo"} : object_hash_call(j, repo)
    \/ write_partial
    \/ write_close
    \/ write_fail
    \/ \E sha \in Shas : object_read_call(sha)

Spec == Init /\ [][Next]_vars

\* ----------------------------------------------------- store properties
\* A call of object_write or object_hash that has returned after writing.
RealWriteDone(c) == c.op \in {"object_write", "object_hash"} /\ c.ret.ok /\ c.io # <<>>

\* The object a call of object_write or object_hash is about.
CallObj(c) == IF c.op = "object_write" THEN c.arg.obj ELSE c.arg.raw

\* A dry run: object_write with actually_write false, object_hash with no repository.
IsDry(c) ==
    \/ c.op = "object_write" /\ ~c.arg.actually_write
    \/ c.op = "object_hash" /\ c.arg.repo = "None"

\* C1: when a real write of an object has returned hash h, object_read(h)
\* succeeds and returns an object of the same kind whose serialize() output
\* equals the serialize() output of the object written.
C1_WriteReadRoundTrip ==
    RealWriteDone(last) =>
        LET r == object_read(files, dirs, last.ret.val)
        IN  /\ r.ok
            /\ r.val.fmt = Objects[CallObj(last)].fmt
            /\ serialize(r.val) = serialize(Objects[CallObj(last)])

\* C2: a write that starts while the complete file of its hash is in the store
\* does not open, truncate or replace that file: the step leaves files as
\* they are.
C2_ExistingFileUntouched ==
    [][(w.pc = "idle" /\ w'.pc = "open" /\ w'.path \in DOMAIN files /\ files[w'.path] = w'.z)
        => files' = files]_vars

\* C4: a dry run leaves the files and directories of the store unchanged, and
\* the hash it returns is the hash a completed real write of the same object
\* returned.
C4_DryRun ==
    [][(w.pc = "idle" /\ (IF w'.pc = "idle" THEN IsDry(last') ELSE IsDry(w')))
        => /\ files' = files
           /\ dirs' = dirs
           /\ w'.pc = "idle"
           /\ (last'.ret.ok /\ real[CallObj(last')] # <<>>) => last'.ret.val = real[CallObj(last')]]_vars

\* A dry run has returned the hash that an earlier real write of the same
\* object returned.
C4_Witness ==
    /\ IsDry(last)
    /\ last.ret.ok
    /\ real[CallObj(last)] # <<>>
    /\ last.ret.val = real[CallObj(last)]

\* C5: a reader never sees a partially written file (object_read finds the
\* path absent or reads a complete object, whatever write is under way), and
\* a write that has failed leaves no file under its hash.
C5_NoPartialFile ==
    /\ last.op = "object_read" => (last.ret.ok \/ last.ret.err \in {"TypeError", "FileNotFoundError"})
    /\ (last.op \in {"object_write", "object_hash"} /\ ~last.ret.ok /\ last.ret.err = "OSError")
         => ObjPath(Store[CallObj(last)].val.sha) \notin DOMAIN files

\* ------------------------------------------------ reading tampered files
\* The store holds one object, written intact.
InitRead ==
    /\ \E i \in StoreObjs : \E p \in {Store[i]} :
         /\ p.ok
         /\ files = [q \in {ObjPath(p.val.sha)} |-> p.val.z]
         /\ dirs = {ObjPath(p.val.sha)[1]}
         /\ real = [k \in DOMAIN Store |-> IF k = i THEN p.val.sha ELSE <<>>]
    /\ refs = FreshRefs
    /\ w = Idle
    /\ last = NoCall
    /\ codec = NoCodec

\* The stored file is tampered with, once, before any read.
tamper(path, op) ==
    /\ last.op = "none"
    /\ \E raw \in {zlib_decompress(files[path])} :
         /\ raw.ok
         /\ CanTamper(raw.val, op)
         /\ files' = SetContent(files, path, zlib_compress(Tamper(raw.val, op)))
    /\ last' = [op |-> "tamper", arg |-> op, ret |-> NoneRet, io |-> <<"write">>]
    /\ UNCHANGED <<dirs, refs, w, real, codec>>

NextRead ==
    \/ \E path \in DOMAIN files, op \in TamperOps : tamper(path, op)
    \/ \E sha \in Shas : object_read_call(sha)

SpecRead == InitRead /\ [][NextRead]_vars

Range(f) == {f[x] : x \in DOMAIN f}

\* The header of raw declares, in decimal digits between the first space and
\* the NUL after it, a length that is not the number of bytes after that NUL.
DeclaredMismatch(raw) ==
    \E x \in 1..Len(raw) : \E y \in (x + 2)..Len(raw) :
        /\ raw[x] = SP /\ \A k \in 1..(x - 1) : raw[k] # SP
        /\ raw[y] = NUL /\ \A k \in (x + 1)..(y - 1) : IsDigit(raw[k])
        /\ DigitsValue(SubSeq(raw, x + 1, y - 1)) # Len(raw) - y

\* C3: when the file object_read opens decompresses to a header whose declared
\* length differs from the number of payload bytes after the NUL, object_read
\* raises the malformed-object error and returns no object.
C3_BadLengthRejected ==
    (last.op = "object_read" /\ ObjPath(last.arg) \in DOMAIN files) =>
        \A raw \in {zlib_decompress(files[ObjPath(last.arg)])} :
            (raw.ok /\ DeclaredMismatch(raw.val)) =>
                (~last.ret.ok /\ last.ret.err = "Exception: Malformed object: bad length")

\* object_read has rejected a file whose payload is shorter than declared.
C3_Witness ==
    /\ last.op = "object_read"
    /\ ObjPath(last.arg) \in DOMAIN files
    /\ \E raw \in {zlib_decompress(files[ObjPath(last.arg)])} :
         raw.ok /\ DeclaredMismatch(raw.val)
    /\ ~last.ret.ok
    /\ last.ret.err = "Exception: Malformed object: bad length"

\* --------------------------------------------------- resolving names
UpperChar(c) == IF c \in 97..122 THEN c - 32 ELSE c
Upper(s) == Elems([i \in 1..Len(s) |-> UpperChar(s[i])], Len(s))

\* The names object_resolve and object_find are given: empty and blank names,
\* HEAD, a branch name, and prefixes of the hashes h and c of two objects.
NamesOf(h, c) ==
    {<<>>, <<SP>>, b_HEAD, SliceFrom(p_master, 11),
     Slice(h, 0, 3), Slice(h, 0, 4), Slice(h, 0, 5), Slice(h, 0, 16), Upper(Slice(h, 0, 16)),
     Slice(h, 0, 17), Slice(h, 0, 39), h, Upper(h), Slice(c, 0, 5)}

Names == NamesOf(Store[1].val.sha, Store[3].val.sha)

\* The reference files: HEAD as repo_create leaves it, alone or with the
\* branch it names holding the hash c.
RefConfigsOf(c) ==
    {FreshRefs,
     [p \in {b_HEAD, p_master} |-> IF p = b_HEAD THEN FreshRefs[b_HEAD] ELSE c \o <<NL>>]}

RefConfigs == RefConfigsOf(Store[3].val.sha)

\* The objects written while names are resolved: two blobs whose hashes share
\* their first four digits, and a commit.
ResolveObjs == {1, 2, 3}

InitResolve ==
    /\ files = <<>>
    /\ dirs = {}
    /\ refs \in RefConfigs
    /\ w = Idle
    /\ real = [i \in DOMAIN Store |-> <<>>]
    /\ last = NoCall
    /\ codec = NoCodec

\* object_resolve(repo, name)
object_resolve_call(name) ==
    /\ \E listing \in Listings(files, Slice(Lower(name), 0, 2)) :
         \E r \in {object_resolve(files, dirs, refs, name, listing)} :
            last' = [op |-> "object_resolve", arg |-> name, ret |-> r.ret, io |-> r.io]
    /\ UNCHANGED <<files, dirs, refs, w, real, codec>>

\* object_find(repo, name, fmt, follow)
object_find_call(name, fmt, follow) ==
    /\ \E listing \in Listings(files, Slice(Lower(name), 0, 2)) :
         \E r \in {object_find(files, dirs, refs, name, fmt, follow, listing)} :
            last' = [op |-> "object_find", arg |-> [name |-> name, fmt |-> fmt, follow |-> follow],
                     ret |-> r.ret, io |-> r.io]
    /\ UNCHANGED <<files, dirs, refs, w, real, codec>>

NextResolve ==
    \/ \E i \in ResolveObjs : object_write_call(i, TRUE)
    \/ write_close
    \/ \E name \in Names : object_resolve_call(name)
    \/ \E name \in Names, fmt \in {<<>>, b_blob, b_commit}, follow \in BOOLEAN :
         object_find_call(name, fmt, follow)

SpecResolve == InitResolve /\ [][NextResolve]_vars

IsHexToken(name) == name # <<>> /\ \A i \in 1..Len(name) : IsHex(name[i])

\* The full hashes of the files in the store whose hash starts with prefix.
StoredWithPrefix(fs, prefix) ==
    {q[1] \o q[2] : q \in {p \in DOMAIN fs : StartsWith(p[1] \o p[2], prefix)}}

\* C8: with no write under way, object_resolve of a hex token of length 4 to
\* 39 returns exactly the full hashes of the stored objects whose hash starts
\* with the lower-cased token.
C8_ShortHashCandidates ==
    (last.op = "object_resolve" /\ w.pc = "idle" /\ IsHexToken(last.arg) /\ Len(last.arg) \in 4..39)
        => /\ last.ret.ok
           /\ ~IsNone(last.ret)
           /\ Range(last.ret.val) = StoredWithPrefix(files, Lower(last.arg))

\* C9: object_resolve of a 40-character hex token returns one candidate, the
\* token lower-cased, and lists no object directory.
C9_FullHashUnchanged ==
    (last.op = "object_resolve" /\ IsHexToken(last.arg) /\ Len(last.arg) = 40)
        => /\ last.ret = Ok(<<Lower(last.arg)>>)
           /\ "listdir" \notin Range(last.io)

\* C10: whatever object_resolve returns for the name, object_find raises the
\* no-such-reference error on no candidate, the ambiguous-reference error
\* naming every candidate on more than one, and with exactly one candidate
\* and no wanted type returns that candidate without opening an object file.
C10_FindOnCandidates ==
    last.op = "object_find" =>
        \A listing \in Listings(files, Slice(Lower(last.arg.name), 0, 2)) :
            \A r \in {object_resolve(files, dirs, refs, last.arg.name, listing).ret} :
                r.ok =>
                    /\ (IsNone(r) \/ r.val = <<>>)
                         => last.ret = Raise("Exception: No such reference")
                    /\ (~IsNone(r) /\ Len(r.val) > 1)
                         => /\ ~last.ret.ok
                            /\ last.ret.err = "Exception: Ambiguous reference"
                            /\ Range(last.ret.candidates) = Range(r.val)
                    /\ (~IsNone(r) /\ Len(r.val) = 1 /\ last.arg.fmt = <<>>)
                         => /\ last.ret = Ok(r.val[1])
                            /\ "open_rb" \notin Range(last.io)

\* object_find has raised the ambiguous-reference error naming two candidates.
C10_Witness ==
    /\ last.op = "object_find"
    /\ ~last.ret.ok
    /\ last.ret.err = "Exception: Ambiguous reference"
    /\ Cardinality(Range(last.ret.candidates)) = 2

\* ------------------------------------------- commit field blocks (kvlm)
MaxFields == 3

\* The sequences over S of length at most n.
SeqsUpTo(S, n) == UNION {[1..k -> S] : k \in 0..n}

\* The fields of a field block: a name and the lines of its value.
FieldKeys == {<<112>>, <<97>>}
FieldLines == {<<<<120>>>>, <<<<120>>, <<121>>>>}
Fields == [key : FieldKeys, lines : FieldLines]
Messages == {<<>>, <<109>>}

\* The lines of a value, each line after the first folded onto a
\* continuation line that starts with a space.
RECURSIVE FoldedLines(_)
FoldedLines(lines) ==
    IF Len(lines) = 1 THEN lines[1]
    ELSE lines[1] \o <<NL, SP>> \o FoldedLines(Tail(lines))

\* The well-formed field block of fs and message m: a 'key SP value NL' line
\* for each field, a blank line, the message.
RECURSIVE FieldBlock(_, _)
FieldBlock(fs, m) ==
    IF fs = <<>> THEN <<NL>> \o m
    ELSE fs[1].key \o <<SP>> \o FoldedLines(fs[1].lines) \o <<NL>> \o FieldBlock(Tail(fs), m)

InitMsg ==
    /\ files = <<>>
    /\ dirs = {}
    /\ refs = FreshRefs
    /\ w = Idle
    /\ real = <<>>
    /\ last = NoCall
    /\ \E fs \in SeqsUpTo(Fields, MaxFields), m \in Messages :
         codec = [stage |-> "input", fields |-> fs, input |-> FieldBlock(fs, m)]

\* message_parse(raw) on the field block
msg_parse ==
    /\ codec.stage = "input"
    /\ codec' = [stage |-> "parsed", fields |-> codec.fields, input |-> codec.input,
                 parsed |-> message_parse(codec.input)]
    /\ UNCHANGED <<files, dirs, refs, w, real, last>>

\* message_serialize(msg) on what message_parse returned
msg_serialize ==
    /\ codec.stage = "parsed"
    /\ codec.parsed.ok
    /\ codec' = [stage |-> "serialized", fields |-> codec.fields, input |-> codec.input,
                 out |-> message_serialize(codec.parsed.val)]
    /\ UNCHANGED <<files, dirs, refs, w, real, last>>

NextMsg == msg_parse \/ msg_serialize

SpecMsg == InitMsg /\ [][NextMsg]_vars

\* C6: serializing what message_parse returns for a well-formed field block
\* yields the bytes of the block, repeated field names included.
C6_MessageRoundTrip ==
    codec.stage = "serialized" => codec.out = Ok(codec.input)

\* ------------------------------------------------------------ tree codec
MaxEntries == 2

m_40000 == <<52, 48, 48, 48, 48>>

\* Hashes of forty hex digits: one starting with a1, one starting with 0b.
HashDigits(hi, lo) == Elems([i \in 1..40 |-> IF i % 2 = 1 THEN hi ELSE lo], 40)
TreeHashes == {HashDigits(97, 49), HashDigits(48, 98)}

TreeEntries == {GitTreeLeaf(m, p, h) : m \in {m_100644, m_40000}, p \in {<<97>>, <<98, 46, 99>>},
                                         h \in TreeHashes}

\* The twenty bytes of a hash of forty hex digits, most significant first.
HashBytes(h) == Elems([i \in 1..20 |-> 16 * HexVal(h[2 * i - 1]) + HexVal(h[2 * i])], 20)

\* The well-formed tree bytes of the entries es: mode SP path NUL and the
\* twenty hash bytes of each entry, in order.
RECURSIVE TreeBytes(_)
TreeBytes(es) ==
    IF es = <<>> THEN <<>>
    ELSE es[1].mode \o <<SP>> \o es[1].path \o <<NUL>> \o HashBytes(es[1].sha) \o TreeBytes(Tail(es))

InitTree ==
    /\ files = <<>>
    /\ dirs = {}
    /\ refs = FreshRefs
    /\ w = Idle
    /\ real = <<>>
    /\ last = NoCall
    /\ \E es \in SeqsUpTo(TreeEntries, MaxEntries) :
         codec = [stage |-> "entries", entries |-> es, input |-> TreeBytes(es)]

\* GitTree(repo, data) on the tree bytes
tree_decode ==
    /\ codec.stage = "entries"
    /\ codec' = [stage |-> "decoded", entries |-> codec.entries, input |-> codec.input,
                 obj |-> GitTree(codec.input)]
    /\ UNCHANGED <<files, dirs, refs, w, real, last>>

\* obj.serialize() on the GitTree decoded
tree_reencode ==
    /\ codec.stage = "decoded"
    /\ codec.obj.ok
    /\ codec' = [stage |-> "reencoded", entries |-> codec.entries, input |-> codec.input,
                 out |-> serialize(codec.obj.val)]
    /\ UNCHANGED <<files, dirs, refs, w, real, last>>

\* tree_serialize(obj) on an object whose items are the entries
tree_encode ==
    /\ codec.stage = "entries"
    /\ codec' = [stage |-> "encoded", entries |-> codec.entries, input |-> codec.input,
                 bytes |-> tree_serialize([fmt |-> b_tree, items |-> codec.entries])]
    /\ UNCHANGED <<files, dirs, refs, w, real, last>>

\* tree_parse(raw) on what tree_serialize returned
tree_redecode ==
    /\ codec.stage = "encoded"
    /\ codec.bytes.ok
    /\ codec' = [stage |-> "redecoded", entries |-> codec.entries, input |-> codec.input,
                 leaves |-> tree_parse(codec.bytes.val)]
    /\ UNCHANGED <<files, dirs, refs, w, real, last>>

NextTree == tree_decode \/ tree_reencode \/ tree_encode \/ tree_redecode

SpecTree == InitTree /\ [][NextTree]_vars

\* Serializing the GitTree decoded from well-formed tree bytes yields the bytes.
TreeDecodeEncode == codec.stage = "reencoded" => codec.out = Ok(codec.input)

\* Decoding the serialization of entries yields the entries, in order.
TreeEncodeDecode == codec.stage = "redecoded" => codec.leaves = Ok(codec.entries)

\* C7: the tree codec round-trips both ways: well-formed tree bytes decoded
\* into a GitTree and serialized again are the original bytes, and entries
\* serialized and decoded again are the same entries in the same order.
C7_TreeRoundTrip == TreeDecodeEncode /\ TreeEncodeDecode

\* ------------------------------------------- following tags and commits
\* The objects written while tags and commits are followed: the commit, the
\* tag that names it, and the tree the commit names.
FollowObjs == {3, 4, 6}

\* The names given to object_find: HEAD and six-digit prefixes of the hashes
\* c of the commit and t of the tag.
FollowNamesOf(c, t) == {b_HEAD, Slice(c, 0, 6), Slice(t, 0, 6)}

FollowNames == FollowNamesOf(Store[3].val.sha, Store[4].val.sha)

NextFollow ==
    \/ \E i \in FollowObjs : object_write_call(i, TRUE)
    \/ write_close
    \/ \E name \in FollowNames, fmt \in {b_commit, b_tree, b_tag}, follow \in BOOLEAN :
         object_find_call(name, fmt, follow)

SpecFollow == InitResolve /\ [][NextFollow]_vars

\* The object stored under sha is read as an object of type fmt.
StoredAs(sha, fmt) ==
    \A o \in {object_read(files, dirs, sha)} : o.ok /\ o.val.fmt = fmt

\* The value of field k of the commit or tag obj, when it has that field once.
FieldOf(obj, k) ==
    IF "msg" \in DOMAIN obj /\ DictHas(obj.msg, k) /\ ~DictGet(obj.msg, k).islist
    THEN Ok(DictGet(obj.msg, k).vals[1])
    ELSE Raise("KeyError")

\* What following obj towards type fmt leads to: the object field of a tag
\* wanted as a commit, the tree field of a commit wanted as a tree.
FollowTarget(obj, fmt) ==
    IF obj.fmt = b_tag /\ fmt = b_commit THEN FieldOf(obj, k_object)
    ELSE IF obj.fmt = b_commit /\ fmt = b_tree THEN FieldOf(obj, b_tree)
    ELSE Raise("KeyError")

\* C11: with follow enabled and no write under way, object_find on a name
\* whose single candidate is a stored tag, wanted as a commit, returns the
\* hash in the tag's object field, and on a name whose single candidate is a
\* stored commit, wanted as a tree, returns the hash in the commit's tree
\* field (the object so named being stored with the wanted type).
C11_FollowTagAndCommit ==
    (last.op = "object_find" /\ last.arg.follow /\ w.pc = "idle") =>
        \A listing \in Listings(files, Slice(Lower(last.arg.name), 0, 2)) :
            \A r \in {object_resolve(files, dirs, refs, last.arg.name, listing).ret} :
                (r.ok /\ ~IsNone(r) /\ Len(r.val) = 1) =>
                    \A o \in {object_read(files, dirs, r.val[1])} :
                        o.ok =>
                            \A t \in {FollowTarget(o.val, last.arg.fmt)} :
                                (t.ok /\ StoredAs(t.val, last.arg.fmt)) => last.ret = Ok(t.val)

\* ------------------------------------------------- chains of references
\* The depth at which the interpreter gives up a recursion (sys.getrecursionlimit(),
\* or the limit on open files, each level keeping its file open).
RecursionLimit == 6

p_b == <<114, 101, 102, 115, 47, 104, 101, 97, 100, 115, 47, 98>>

\* The reference files of the chains: HEAD and two branches.
RefPaths == {b_HEAD, p_master, p_b}

\* What a reference file holds: 'ref: <path>' or a hash, and a newline.
RefContents == {s_ref \o q \o <<NL>> : q \in RefPaths} \cup {HashDigits(97, 49) \o <<NL>>}

\* The reference files there can be: HEAD exists, each branch may.
RefFiles == UNION {[S \cup {b_HEAD} -> RefContents] : S \in SUBSET (RefPaths \ {b_HEAD})}

InitRef ==
    /\ files = <<>>
    /\ dirs = {}
    /\ refs \in RefFiles
    /\ w = Idle
    /\ real = <<>>
    /\ last = NoCall
    /\ codec = NoCodec

\* ref_resolve(repo, ref) is called.
ref_resolve_begin(ref) ==
    /\ codec.stage = "none"
    /\ codec' = [stage |-> "resolving", first |-> ref, ref |-> ref, depth |-> 1]
    /\ UNCHANGED <<files, dirs, refs, w, real, last>>

\* One level of ref_resolve: the file of the reference is opened and read;
\* 'ref: <path>' recurses into <path>, anything else is returned.  Beyond
\* RecursionLimit levels the interpreter raises RecursionError, or the open
\* fails for want of file descriptors.
ref_resolve_level ==
    /\ codec.stage = "resolving"
    /\ \/ /\ codec.depth > RecursionLimit
          /\ \E e \in {"RecursionError", "OSError"} :
                codec' = [stage |-> "raised", first |-> codec.first, ref |-> codec.ref,
                          depth |-> codec.depth, err |-> e]
       \/ /\ codec.depth <= RecursionLimit
          /\ codec.ref \notin DOMAIN refs
          /\ codec' = [stage |-> "raised", first |-> codec.first, ref |-> codec.ref,
                       depth |-> codec.depth, err |-> "FileNotFoundError"]
       \/ /\ codec.depth <= RecursionLimit
          /\ codec.ref \in DOMAIN refs
          /\ \E data \in {RStrip(refs[codec.ref])} :
                IF StartsWith(data, s_ref)
                THEN codec' = [stage |-> "resolving", first |-> codec.first,
                               ref |-> SliceFrom(data, 5), depth |-> codec.depth + 1]
                ELSE codec' = [stage |-> "returned", first |-> codec.first, ref |-> codec.ref,
                               depth |-> codec.depth, val |-> data]
    /\ UNCHANGED <<files, dirs, refs, w, real, last>>

NextRef ==
    \/ \E ref \in RefPaths : ref_resolve_begin(ref)
    \/ ref_resolve_level
    \/ object_resolve_call(b_HEAD)

SpecRef == InitRef /\ [][NextRef]_vars

\* ps is a chain of distinct reference files in rs: each but the last holds
\* 'ref: ' and the path of the next.
IsChain(rs, ps) ==
    /\ ps # <<>>
    /\ \A i \in 1..Len(ps) : ps[i] \in DOMAIN rs
    /\ \A i, j \in 1..Len(ps) : ps[i] = ps[j] => i = j
    /\ \A i \in 1..(Len(ps) - 1) : rs[ps[i]] = s_ref \o ps[i + 1] \o <<NL>>

\* The chain ps ends in a direct value, h and a newline.
EndsIn(rs, ps, h) ==
    /\ IsChain(rs, ps)
    /\ rs[ps[Len(ps)]] = h \o <<NL>>
    /\ ~StartsWith(h, s_ref)

\* The chain ps ends in a file that names a file of the chain: a cycle.
Revisits(rs, ps) ==
    /\ IsChain(rs, ps)
    /\ \E j \in 1..Len(ps) : rs[ps[Len(ps)]] = s_ref \o ps[j] \o <<NL>>

Chains == SeqsUpTo(RefPaths, Cardinality(RefPaths))

\* C12: when the reference files from a reference form an acyclic chain that
\* ends in a direct value, ref_resolve on the first reference returns that
\* value without its trailing newline, and object_resolve on HEAD returns it
\* as its single candidate; no object file is looked at.
C12_ChainResolved ==
    \A ps \in Chains :
        \A h \in {HashDigits(97, 49)} :
            EndsIn(refs, ps, h) =>
                /\ (codec.stage \in {"returned", "raised"} /\ codec.first = ps[1])
                     => (codec.stage = "returned" /\ codec.val = h)
                /\ (last.op = "object_resolve" /\ ps[1] = b_HEAD)
                     => (last.ret = Ok(<<h>>) /\ last.io = <<"open_ref">>)

\* ref_resolve has returned the value at the end of a chain of three files.
C12_Witness ==
    /\ codec.stage = "returned"
    /\ codec.depth = 3
    /\ \E ps \in Chains : Len(ps) = 3 /\ ps[1] = codec.first /\ EndsIn(refs, ps, codec.val)

\* C13: when the chain from a reference revisits a reference, ref_resolve
\* stops at the revisit, having opened each file of the chain at most once
\* more, and what it raises is a reference-cycle error of the program, not
\* the interpreter's RecursionError or an OSError for too many open files.
C13_CycleDetected ==
    \A ps \in Chains :
        (Revisits(refs, ps) /\ codec.stage # "none" /\ codec.first = ps[1]) =>
            /\ codec.depth <= Len(ps) + 1
            /\ codec.stage # "returned"
            /\ codec.stage = "raised" => codec.err \notin {"RecursionError", "OSError"}

\* ------------------------------------------------------ truncated trees
\* A hash whose eighteenth byte is a space: thirty-four digits a1, then 20, then a1a1.
HashWithSpace == Elems([i \in 1..40 |-> IF i = 35 THEN 50 ELSE IF i = 36 THEN 48
                                         ELSE IF i % 2 = 1 THEN 97 ELSE 49], 40)

CutEntries == {GitTreeLeaf(m, <<97>>, h) : m \in {m_100644, m_40000},
                                           h \in TreeHashes \cup {HashWithSpace}}

\* The number of bytes of the record of entry e.
RecordLen(e) == Len(e.mode) + 1 + Len(e.path) + 1 + 20

\* The bytes of a tree given to tree_parse: the well-formed bytes of one or
\* two entries, whole or with the last record cut short by cut bytes.
CutInputs ==
    {[entries |-> es, cut |-> c] :
        es \in SeqsUpTo(CutEntries, MaxEntries) \ {<<>>}, c \in 0..(Len(m_100644) + 22)}

InitCut ==
    /\ files = <<>>
    /\ dirs = {}
    /\ refs = FreshRefs
    /\ w = Idle
    /\ real = <<>>
    /\ last = NoCall
    /\ \E in \in CutInputs :
         /\ in.cut < RecordLen(in.entries[Len(in.entries)])
         /\ \E raw \in {TreeBytes(in.entries)} :
              codec = [stage |-> "raw", entries |-> in.entries, cut |-> in.cut,
                       input |-> SubSeq(raw, 1, Len(raw) - in.cut)]

\* The positions the loop of tree_parse takes, one for each test of
\* pos < length, until the loop ends, a leaf fails to parse or fuel runs out.
RECURSIVE CursorTrace(_, _, _)
CursorTrace(raw, pos, fuel) ==
    IF ~(pos < Len(raw)) \/ fuel = 0 THEN <<pos>>
    ELSE IF ~tree_parse_leaf(raw, pos).ok THEN <<pos>>
    ELSE <<pos>> \o CursorTrace(raw, tree_parse_leaf(raw, pos).val.pos, fuel - 1)

\* tree_parse(raw) on the bytes
tree_parse_call ==
    /\ codec.stage = "raw"
    /\ codec' = [stage |-> "parsed", entries |-> codec.entries, cut |-> codec.cut,
                 input |-> codec.input, leaves |-> tree_parse(codec.input),
                 trace |-> CursorTrace(codec.input, 0, Len(codec.input) + 22)]
    /\ UNCHANGED <<files, dirs, refs, w, real, last>>

\* tree_parse_leaf(raw, start) on the last record of the bytes
tree_parse_leaf_call ==
    /\ codec.stage = "raw"
    /\ \E start \in {Len(TreeBytes(SubSeq(codec.entries, 1, Len(codec.entries) - 1)))} :
         codec' = [stage |-> "leaf", entries |-> codec.entries, cut |-> codec.cut,
                   input |-> codec.input, start |-> start,
                   leaf |-> tree_parse_leaf(codec.input, start)]
    /\ UNCHANGED <<files, dirs, refs, w, real, last>>

NextCut == tree_parse_call \/ tree_parse_leaf_call

SpecCut == InitCut /\ [][NextCut]_vars

\* C14: tree_parse of bytes that end in a partial record (the last record cut
\* short, so that the NUL after its path or some of its twenty hash bytes are
\* missing) raises an error and returns no entry list.
C14_PartialRecordRejected ==
    (codec.stage = "parsed" /\ codec.cut > 0) =>
        (~codec.leaves.ok /\ codec.leaves.err # "NonTermination")

\* C15: tree_parse terminates, and the positions its loop takes increase
\* strictly: every tree_parse_leaf returns a position beyond its start.
C15_TreeParseTerminates ==
    codec.stage = "parsed" =>
        /\ ~(~codec.leaves.ok /\ codec.leaves.err = "NonTermination")
        /\ \A i \in 1..(Len(codec.trace) - 1) : codec.trace[i] < codec.trace[i + 1]

\* C17: the hash tree_parse_leaf yields for the last record of well-formed
\* tree bytes is forty lower-case hex digits that encode the record's twenty
\* hash bytes, so that its first two and last thirty-eight digits are the
\* storage path of the object.
C17_LeafHashFortyDigits ==
    (codec.stage = "leaf" /\ codec.cut = 0) =>
        /\ codec.leaf.ok
        /\ Len(codec.leaf.val.leaf.sha) = 40
        /\ \A i \in 1..Len(codec.leaf.val.leaf.sha) :
              IsHex(codec.leaf.val.leaf.sha[i]) /\ codec.leaf.val.leaf.sha[i] \notin 65..70
        /\ HashBytes(codec.leaf.val.leaf.sha) = SliceFrom(codec.input, Len(codec.input) - 20)
        /\ Len(ObjPath(codec.leaf.val.leaf.sha)[1]) = 2
        /\ Len(ObjPath(codec.leaf.val.leaf.sha)[2]) = 38

\* ------------------------------------------- field blocks cut short
MaxBytes == 4
MaxCutFields == 2

\* The bytes given to message_parse: every sequence of up to MaxBytes bytes
\* over a space, a newline and a letter, and every well-formed field block of
\* up to MaxCutFields fields with its last cut bytes removed.
MsgAlphabet == {SP, NL, 107}

CutBlocks ==
    {[fields |-> fs, msg |-> m, cut |-> c] :
        fs \in SeqsUpTo(Fields, MaxCutFields), m \in Messages, c \in 0..(4 * MaxCutFields + 2)}

\* The start of each message_parse call of the recursion on raw, in order,
\* until a call returns or raises or fuel runs out.
RECURSIVE StartTrace(_, _, _)
StartTrace(raw, start, fuel) ==
    IF fuel = 0 \/ Find(raw, SP, start) < 0 \/ Find(raw, NL, start) < Find(raw, SP, start)
    THEN <<start>>
    ELSE IF ~FindValueEnd(raw, start, Len(raw) + 2).ok THEN <<start>>
    ELSE <<start>> \o StartTrace(raw, FindValueEnd(raw, start, Len(raw) + 2).val + 1, fuel - 1)

InitBytes ==
    /\ files = <<>>
    /\ dirs = {}
    /\ refs = FreshRefs
    /\ w = Idle
    /\ real = <<>>
    /\ last = NoCall
    /\ \/ \E raw \in SeqsUpTo(MsgAlphabet, MaxBytes) :
            codec = [stage |-> "raw", cut |-> 0, boundary |-> FALSE, input |-> raw]
       \/ \E b \in CutBlocks : \E raw \in {FieldBlock(b.fields, b.msg)} :
            /\ b.cut <= Len(raw)
            /\ codec = [stage |-> "raw", cut |-> b.cut, boundary |-> b.cut <= Len(b.msg),
                        input |-> SubSeq(raw, 1, Len(raw) - b.cut)]

\* message_parse(raw) on the bytes
message_parse_call ==
    /\ codec.stage = "raw"
    /\ codec' = [stage |-> "parsed", cut |-> codec.cut, boundary |-> codec.boundary,
                 input |-> codec.input, parsed |-> message_parse(codec.input),
                 trace |-> StartTrace(codec.input, 0, Len(codec.input) + 2)]
    /\ UNCHANGED <<files, dirs, refs, w, real, last>>

NextBytes == message_parse_call

SpecBytes == InitBytes /\ [][NextBytes]_vars

\* C16: message_parse terminates by itself (its loop ends and its recursion
\* is not cut off by the interpreter), the starts of its calls increase
\* strictly, and on a field block cut short before its blank line it raises
\* an error.
C16_MessageParseTerminates ==
    codec.stage = "parsed" =>
        /\ ~(~codec.parsed.ok /\ codec.parsed.err \in {"NonTermination", "RecursionError"})
        /\ \A i \in 1..(Len(codec.trace) - 1) : codec.trace[i] < codec.trace[i + 1]
        /\ (codec.cut > 0 /\ ~codec.boundary) => ~codec.parsed.ok

====
